---- MODULE Spec2Model ----
(***************************************************************************)
(* A model of the `serializers` crate: the Builder accumulator, the        *)
(* Serializer trait's provided methods (to_value, serialize,               *)
(* serialize_iter) and the serializer! macro's entry points.               *)
(*                                                                         *)
(* A Rust panic is modelled as the value Panic: it unwinds through every   *)
(* enclosing frame, so every operator that receives it returns it.         *)
(***************************************************************************)
EXTENDS Integers, Sequences, FiniteSets, TLC

(***************************************************************************)
(* Bounds of the model.                                                    *)
(***************************************************************************)
\* largest number of User nodes in one input of serialize / to_value / serialize_iter
MaxNodes == 3
\* largest number of Builder calls one hand-written mapping makes
MaxCalls == 3

(***************************************************************************)
(* Values of the source types (V: Serialize) handed to Builder::attr.      *)
(***************************************************************************)
U64(n) == [t |-> "u64", v |-> n]
StringVal(s) == [t |-> "string", v |-> s]
\* an f64 that is not finite
F64NaN == [t |-> "f64", v |-> "NaN"]
\* a Serialize value serde_json::to_value rejects (a map whose keys are not strings)
BadMap == [t |-> "badmap", v |-> "{1: 1}"]

(***************************************************************************)
(* serde_json::Value, and the unwinding of a panic.                        *)
(***************************************************************************)
Null == [t |-> "null", v |-> 0]
Num(n) == [t |-> "num", v |-> n]
Str(s) == [t |-> "str", v |-> s]
Arr(elems) == [t |-> "arr", v |-> elems]
Obj(entries) == [t |-> "obj", v |-> entries]
Panic == [t |-> "panic", v |-> 0]

\* String's Ord on the keys that occur: the keys in lexicographic (byte) order
KeyOrder == <<"buddies", "code", "country", "friends", "homeland", "id", "identifier", "name">>
Rank(k) == CHOOSE i \in 1..Len(KeyOrder) : KeyOrder[i] = k
KeyLess(a, b) == Rank(a) < Rank(b)

\* json!(value) in Builder::attr: serde_json::to_value(&value).unwrap().
\* An f64 that is not finite has no JSON number: to_value returns Ok(Value::Null).
\* A value to_value rejects gives Err, and unwrap panics.
JsonScalar(val) ==
    CASE val.t = "u64" -> Num(val.v)
      [] val.t = "string" -> Str(val.v)
      [] val.t = "f64" -> Null
      [] OTHER -> Panic

IsPanic(x) == x.t = "panic"

(***************************************************************************)
(* Value::to_string(): the compact rendering of a value tree.              *)
(***************************************************************************)
Quote(s) == "\"" \o s \o "\""

RECURSIVE Render(_), RenderElems(_), RenderEntries(_)
Render(val) ==
    CASE val.t = "null" -> "null"
      [] val.t = "num" -> ToString(val.v)
      [] val.t = "str" -> Quote(val.v)
      [] val.t = "arr" -> "[" \o RenderElems(val.v) \o "]"
      [] val.t = "obj" -> "{" \o RenderEntries(val.v) \o "}"

RenderElems(elems) ==
    IF elems = <<>> THEN ""
    ELSE Render(Head(elems)) \o (IF Len(elems) > 1 THEN "," ELSE "") \o RenderElems(Tail(elems))

RenderEntries(entries) ==
    IF entries = <<>> THEN ""
    ELSE Quote(Head(entries)[1]) \o ":" \o Render(Head(entries)[2])
         \o (IF Len(entries) > 1 THEN "," ELSE "") \o RenderEntries(Tail(entries))

\* what a call that returns a String hands its caller
Ok(s) == [t |-> "ok", v |-> s]

(***************************************************************************)
(* serde_json's Map<String, Value> (a BTreeMap): the entries in key order. *)
(***************************************************************************)
\* BTreeMap::insert: the entry goes to its place in key order, an equal key is replaced
RECURSIVE BTreeInsert(_, _, _)
BTreeInsert(entries, key, value) ==
    IF entries = <<>> THEN << <<key, value>> >>
    ELSE IF Head(entries)[1] = key THEN << <<key, value>> >> \o Tail(entries)
    ELSE IF KeyLess(key, Head(entries)[1]) THEN << <<key, value>> >> \o entries
    ELSE <<Head(entries)>> \o BTreeInsert(Tail(entries), key, value)

\* a Map that keeps the entries in the order they arrive (no sorting)
MapFromIterUnsorted(pairs) == pairs

\* collecting the entries an iterator yields into the Map
RECURSIVE MapFromIter(_)
MapFromIter(pairs) ==
    IF pairs = <<>> THEN <<>>
    ELSE LET n == Len(pairs)
         IN BTreeInsert(MapFromIter(SubSeq(pairs, 1, n - 1)), pairs[n][1], pairs[n][2])

(***************************************************************************)
(* Builder: map is the HashMap<String, Value>, a function from the keys    *)
(* present to their values.  panicked says that a call on the Builder      *)
(* panicked: the frame that owns it is unwinding.                          *)
(***************************************************************************)
BuilderNew == [map |-> <<>>, panicked |-> FALSE]

\* an insert that keeps the entry a key already has
InsertKeepFirst(map, key, value) == map @@ (key :> value)

\* HashMap::insert
Insert(map, key, value) == (key :> value) @@ map

\* the orders in which a HashMap over the keys S may be iterated
IterOrders(S) == {p \in [1..Cardinality(S) -> S] : \A i, j \in DOMAIN p : p[i] = p[j] => i = j}
\* the order one given HashMap is iterated in: unspecified, but some order
RECURSIVE HashIter(_)
HashIter(S) ==
    IF S = {} THEN <<>>
    ELSE LET k == CHOOSE k \in S : TRUE IN <<k>> \o HashIter(S \ {k})

\* json!(self.map): the HashMap is iterated in the order `order` and collected into a Map
MapToValue(map, order) == Obj(MapFromIter([i \in DOMAIN order |-> <<order[i], map[order[i]]>>]))

\* Builder::to_value
BuilderToValue(b) == MapToValue(b.map, HashIter(DOMAIN b.map))

\* Builder::attr
Attr(b, key, value) ==
    LET json == JsonScalar(value)
    IN IF IsPanic(json) THEN [b EXCEPT !.panicked = TRUE]
       ELSE [b EXCEPT !.map = Insert(b.map, key, json)]

(***************************************************************************)
(* serializer!: the items of a body and the Builder calls they expand to.  *)
(* An item is <<"attr", key>>, <<"attr", key, field>>,                     *)
(* <<"has_one" or "has_many", key, serializer>> or                         *)
(* <<"has_one" or "has_many", key, field, serializer>>.                    *)
(***************************************************************************)
\* the short form of an item names the field as the key
Expand(item) ==
    IF item[1] = "attr"
    THEN IF Len(item) = 2 THEN <<"attr", item[2], item[2]>> ELSE item
    ELSE IF Len(item) = 3 THEN <<item[1], item[2], item[2], item[3]>> ELSE item

\* Lower with the key taken from the field's name
LowerFieldAsKey(item) ==
    LET long == Expand(item)
    IN [op |-> long[1], key |-> long[3], field |-> long[3],
        ser |-> IF long[1] = "attr" THEN "" ELSE long[4]]

\* the Builder call of a long-form item: $b.op(stringify!($key), &$v.$field, &$ser)
Lower(item) ==
    LET long == Expand(item)
    IN [op |-> long[1], key |-> long[2], field |-> long[3],
        ser |-> IF long[1] = "attr" THEN "" ELSE long[4]]

\* the serializers the documentation declares
UserSerializer ==
    << <<"attr", "id">>, <<"attr", "name">>,
       <<"has_one", "country", "CountrySerializer">>,
       <<"has_many", "friends", "UserSerializer">> >>
CountrySerializer == << <<"attr", "id">> >>
UserSerializerCustom ==
    << <<"attr", "identifier", "id">>,
       <<"has_one", "homeland", "country", "CountrySerializerCustom">>,
       <<"has_many", "buddies", "friends", "UserSerializerCustom">> >>
CountrySerializerCustom == << <<"attr", "code", "id">> >>
\* a mapping that refers to itself and reads nothing but the id
TreeSerializer == << <<"attr", "id">>, <<"has_many", "friends", "TreeSerializer">> >>

UserSerializers == {"UserSerializer", "UserSerializerCustom", "TreeSerializer"}
CountrySerializers == {"CountrySerializer", "CountrySerializerCustom"}

Body(ser) ==
    CASE ser = "UserSerializer" -> UserSerializer
      [] ser = "CountrySerializer" -> CountrySerializer
      [] ser = "UserSerializerCustom" -> UserSerializerCustom
      [] ser = "CountrySerializerCustom" -> CountrySerializerCustom
      [] ser = "TreeSerializer" -> TreeSerializer

(***************************************************************************)
(* The Serializer trait and the Builder calls that re-enter it.            *)
(***************************************************************************)
RECURSIVE ToValue(_, _), SerializeInto(_, _, _)

\* has_one running the nested mapping on the calling Builder
HasOneSharedBuilder(b, key, value, ser) ==
    LET inner == SerializeInto(ser, value, b)
    IN IF inner.panicked THEN inner
       ELSE [inner EXCEPT !.map = Insert(inner.map, key, BuilderToValue(inner))]

\* Builder::has_one
HasOne(b, key, value, ser) ==
    LET val == ToValue(ser, value)
    IN IF IsPanic(val) THEN [b EXCEPT !.panicked = TRUE]
       ELSE [b EXCEPT !.map = Insert(b.map, key, val)]

\* has_many collecting the elements in reverse
HasManyReversed(b, key, values, ser) ==
    LET n == Len(values)
        vals == [i \in 1..n |-> ToValue(ser, values[n + 1 - i])]
    IN IF \E i \in DOMAIN vals : IsPanic(vals[i]) THEN [b EXCEPT !.panicked = TRUE]
       ELSE [b EXCEPT !.map = Insert(b.map, key, Arr(vals))]

\* has_many that writes nothing for an empty input
HasManySkipEmpty(b, key, values, ser) ==
    LET vals == [i \in 1..Len(values) |-> ToValue(ser, values[i])]
    IN IF \E i \in DOMAIN vals : IsPanic(vals[i]) THEN [b EXCEPT !.panicked = TRUE]
       ELSE IF vals = <<>> THEN b
       ELSE [b EXCEPT !.map = Insert(b.map, key, Arr(vals))]

\* has_many that serializes the first element only
HasManyFirstOnly(b, key, values, ser) ==
    LET vals == [i \in 1..(IF values = <<>> THEN 0 ELSE 1) |-> ToValue(ser, values[i])]
    IN IF \E i \in DOMAIN vals : IsPanic(vals[i]) THEN [b EXCEPT !.panicked = TRUE]
       ELSE [b EXCEPT !.map = Insert(b.map, key, Arr(vals))]

\* has_many that leaves out the elements whose serialization panicked
HasManyDropFailed(b, key, values, ser) ==
    LET all == [i \in 1..Len(values) |-> ToValue(ser, values[i])]
        vals == SelectSeq(all, LAMBDA x : ~IsPanic(x))
    IN [b EXCEPT !.map = Insert(b.map, key, Arr(vals))]

\* Builder::has_many
HasMany(b, key, values, ser) ==
    LET vals == [i \in 1..Len(values) |-> ToValue(ser, values[i])]
    IN IF \E i \in DOMAIN vals : IsPanic(vals[i]) THEN [b EXCEPT !.panicked = TRUE]
       ELSE [b EXCEPT !.map = Insert(b.map, key, Arr(vals))]

\* one Builder call of a mapping's serialize_into on the value v
Exec(b, call, v) ==
    CASE call.op = "attr" -> Attr(b, call.key, v[call.field])
      [] call.op = "has_one" -> HasOne(b, call.key, v[call.field], call.ser)
      [] call.op = "has_many" -> HasMany(b, call.key, v[call.field], call.ser)

\* a serialize_into body: its Builder calls in turn; a panic ends the body
RECURSIVE RunCalls(_, _, _)
RunCalls(cs, v, b) ==
    IF cs = <<>> \/ b.panicked THEN b
    ELSE RunCalls(Tail(cs), v, Exec(b, Head(cs), v))

\* the serialize_into the macro generates from a body: the call of each item in turn
RunBody(items, v, b) == RunCalls([i \in DOMAIN items |-> Lower(items[i])], v, b)

\* Serializer::serialize_into of a declared serializer
SerializeInto(ser, v, b) == RunBody(Body(ser), v, b)

\* Serializer::to_value
ToValue(ser, v) ==
    LET builder == SerializeInto(ser, v, BuilderNew)
    IN IF builder.panicked THEN Panic ELSE BuilderToValue(builder)

\* Serializer::serialize
Serialize(ser, v) ==
    LET val == ToValue(ser, v)
    IN IF IsPanic(val) THEN Panic ELSE Ok(Render(val))

\* serialize_iter returning the documents of the elements one after the other
SerializeIterConcat(ser, values) ==
    LET RECURSIVE Docs(_)
        Docs(vs) == IF vs = <<>> THEN "" ELSE Render(ToValue(ser, Head(vs))) \o Docs(Tail(vs))
    IN IF \E i \in DOMAIN values : IsPanic(ToValue(ser, values[i])) THEN Panic
       ELSE Ok(Docs(values))

\* Serializer::serialize_iter
SerializeIter(ser, values) ==
    LET acc == [i \in 1..Len(values) |-> ToValue(ser, values[i])]
    IN IF \E i \in DOMAIN acc : IsPanic(acc[i]) THEN Panic ELSE Ok(Render(Arr(acc)))

(***************************************************************************)
(* serializer!: the struct definition each entry point hands on.           *)
(* vis is the visibility written ("pub", "pub(crate)" or "" for none),     *)
(* derive says whether a #[derive(...)] line is written.                   *)
(***************************************************************************)
StructDef(vis, derive) ==
    CASE vis = "pub(crate)" /\ derive -> [vis |-> "pub(crate)", derives |-> TRUE]
      [] vis = "pub(crate)" /\ ~derive -> [vis |-> "pub(crate)", derives |-> FALSE]
      [] vis = "pub" /\ derive -> [vis |-> "pub", derives |-> TRUE]
      [] vis = "pub" /\ ~derive -> [vis |-> "pub(crate)", derives |-> FALSE]
      [] vis = "" /\ derive -> [vis |-> "", derives |-> TRUE]
      [] vis = "" /\ ~derive -> [vis |-> "pub(crate)", derives |-> FALSE]

Visibilities == {"pub", "pub(crate)", ""}

(***************************************************************************)
(* The values serialized: the documentation's User and Country.            *)
(***************************************************************************)
Country(id) == [id |-> U64(id)]
User(id, name, country, friends) ==
    [id |-> U64(id), name |-> name, country |-> country, friends |-> friends]

\* the (id, name) pairs of the Users; a name is any Serialize value: a string, a
\* float that is not finite, or a value without JSON form
Labels == {<<1, StringVal("Bob")>>, <<2, StringVal("Bob")>>, <<2, F64NaN>>, <<1, BadMap>>}
Denmark == Country(1)
Countries == {Country(1), Country(2)}

\* the Users of exactly n nodes, and the sequences of Users of m nodes in all
RECURSIVE Trees(_), Forests(_)
Trees(n) ==
    IF n = 0 THEN {}
    ELSE {User(l[1], l[2], Denmark, f) : l \in Labels, f \in Forests(n - 1)}
Forests(m) ==
    IF m = 0 THEN {<<>>}
    ELSE UNION {{<<u>> \o f : u \in Trees(k), f \in Forests(m - k)} : k \in 1..m}

AllUsers == UNION {Trees(n) : n \in 1..MaxNodes}
AllForests == UNION {Forests(m) : m \in 0..MaxNodes}
\* the Users a hand-written mapping is run on: at most one friend, who has none
SessionUsers ==
    {u \in AllUsers : /\ Len(u.friends) <= 1
                      /\ \A i \in DOMAIN u.friends : u.friends[i].friends = <<>>}

(***************************************************************************)
(* The state: a behaviour is one call of the crate, from the caller's      *)
(* point of view.                                                          *)
(***************************************************************************)
VARIABLES
    pc,         \* "idle", "declared", "into" (inside a hand-written serialize_into),
                \* "returned" or "panicked"
    request,    \* the call made: [fn, ser, arg]
    builder,    \* the Builder of the root to_value whose serialize_into is running
    calls,      \* the Builder calls the hand-written mapping has made, in order
    tree,       \* the Value to_value returned
    output,     \* what serialize / serialize_iter returned: Ok(string) or Panic
    struct_def  \* the struct definition the macro emitted

vars == <<pc, request, builder, calls, tree, output, struct_def>>

None == [t |-> "none", v |-> 0]
NoRequest == [fn |-> "", ser |-> "", arg |-> None]
NoStructDef == [vis |-> "none", derives |-> FALSE]

Init ==
    /\ pc = "idle"
    /\ request = NoRequest
    /\ builder = BuilderNew
    /\ calls = <<>>
    /\ tree = None
    /\ output = None
    /\ struct_def = NoStructDef

\* no call has been made yet: a behaviour is one call of the crate
Quiescent == pc = "idle"

\* serializer! { [#[derive(..)]] vis struct UserSerializer<User> { .. } }
Declare(vis, derive) ==
    /\ Quiescent
    /\ pc' = "declared"
    /\ request' = [fn |-> "serializer!", ser |-> "UserSerializer",
                   arg |-> [vis |-> vis, derive |-> derive]]
    /\ struct_def' = StructDef(vis, derive)
    /\ builder' = BuilderNew /\ calls' = <<>> /\ tree' = None /\ output' = None

\* ser.to_value(&v) of a declared serializer
ToValueCall(ser, v) ==
    /\ Quiescent
    /\ request' = [fn |-> "to_value", ser |-> ser, arg |-> v]
    /\ tree' = ToValue(ser, v)
    /\ pc' = IF IsPanic(tree') THEN "panicked" ELSE "returned"
    /\ output' = None
    /\ builder' = BuilderNew /\ calls' = <<>> /\ struct_def' = NoStructDef

\* ser.serialize(&v) of a declared serializer
SerializeCall(ser, v) ==
    /\ Quiescent
    /\ request' = [fn |-> "serialize", ser |-> ser, arg |-> v]
    /\ output' = Serialize(ser, v)
    /\ pc' = IF IsPanic(output') THEN "panicked" ELSE "returned"
    /\ tree' = None
    /\ builder' = BuilderNew /\ calls' = <<>> /\ struct_def' = NoStructDef

\* ser.serialize_iter(&values) of a declared serializer
SerializeIterCall(ser, values) ==
    /\ Quiescent
    /\ request' = [fn |-> "serialize_iter", ser |-> ser, arg |-> values]
    /\ output' = SerializeIter(ser, values)
    /\ pc' = IF IsPanic(output') THEN "panicked" ELSE "returned"
    /\ tree' = None
    /\ builder' = BuilderNew /\ calls' = <<>> /\ struct_def' = NoStructDef

\* serialize(&v) of a hand-written mapping: to_value makes the Builder and enters
\* the mapping's serialize_into
Enter(v) ==
    /\ Quiescent
    /\ pc' = "into"
    /\ request' = [fn |-> "serialize", ser |-> "closure", arg |-> v]
    /\ builder' = BuilderNew
    /\ calls' = <<>> /\ tree' = None /\ output' = None /\ struct_def' = NoStructDef

\* the mapping makes one more Builder call; a panic unwinds to the caller of serialize
Step(call) ==
    /\ pc = "into"
    /\ Len(calls) < MaxCalls
    /\ builder' = Exec(builder, call, request.arg)
    /\ calls' = Append(calls, call)
    /\ pc' = IF builder'.panicked THEN "panicked" ELSE "into"
    /\ output' = IF builder'.panicked THEN Panic ELSE output
    /\ UNCHANGED <<request, tree, struct_def>>

CallAttr(key, field) == Step([op |-> "attr", key |-> key, field |-> field, ser |-> ""])
CallHasOne(key, ser) == Step([op |-> "has_one", key |-> key, field |-> "country", ser |-> ser])
CallHasMany(key, ser) == Step([op |-> "has_many", key |-> key, field |-> "friends", ser |-> ser])

\* the mapping returns: to_value converts the Builder, serialize renders the Value
Return(order) ==
    /\ pc = "into"
    /\ tree' = MapToValue(builder.map, order)
    /\ output' = Ok(Render(tree'))
    /\ pc' = "returned"
    /\ UNCHANGED <<request, builder, calls, struct_def>>

\* a declared serializer and a value of the type it serializes
Typed == (UserSerializers \X AllUsers) \cup (CountrySerializers \X Countries)

Next ==
    \/ Quiescent /\ \E vis \in Visibilities, derive \in BOOLEAN : Declare(vis, derive)
    \/ Quiescent /\ \E sv \in Typed : ToValueCall(sv[1], sv[2])
    \/ Quiescent /\ \E sv \in Typed : SerializeCall(sv[1], sv[2])
    \/ Quiescent /\ \E ser \in UserSerializers, values \in AllForests : SerializeIterCall(ser, values)
    \/ Quiescent /\ \E v \in SessionUsers : Enter(v)
    \/ pc = "into" /\ \E key \in {"id", "name"}, field \in {"id", "name"} : CallAttr(key, field)
    \/ pc = "into" /\ CallHasOne("country", "CountrySerializer")
    \/ pc = "into" /\ CallHasMany("friends", "UserSerializer")
    \/ pc = "into" /\ \E order \in IterOrders(DOMAIN builder.map) : Return(order)

Spec == Init /\ [][Next]_vars

(***************************************************************************)
(* Helpers of the properties.                                              *)
(***************************************************************************)
\* the keys of an object Value, and the value at a key
KeysOf(obj) == {obj.v[i][1] : i \in DOMAIN obj.v}
Get(obj, k) == obj.v[CHOOSE i \in DOMAIN obj.v : obj.v[i][1] = k][2]

\* a source value that is one of JSON's scalars, and the Value it stands for
Representable(val) == val.t \in {"u64", "string"}
ScalarOf(val) == IF val.t = "u64" THEN Num(val.v) ELSE Str(val.v)

InSession == request.ser = "closure"
DistinctKeys(cs) == \A i, j \in DOMAIN cs : cs[i].key = cs[j].key => i = j
CallKeys(cs) == {cs[i].key : i \in DOMAIN cs}
\* the call i of cs is the last one that writes its key
LastWrite(cs, i) == \A j \in DOMAIN cs : j > i => cs[j].key # cs[i].key

\* the hand-written mapping made attr calls only, on distinct keys, reading JSON scalars
ScalarOnlySession ==
    /\ InSession
    /\ DistinctKeys(calls)
    /\ \A i \in DOMAIN calls :
          calls[i].op = "attr" /\ Representable(request.arg[calls[i].field])

\* C1: a mapping that makes only attr calls on distinct keys yields an object whose
\* keys are exactly the declared keys, each with the value of the field read for it,
\* also when the key differs from the field's name (attr(key, field)); serialize
\* returns the rendering of that object.
C1_ScalarObject ==
    /\ ScalarOnlySession => pc # "panicked"
    /\ (ScalarOnlySession /\ pc = "returned") =>
          /\ tree.t = "obj"
          /\ KeysOf(tree) = CallKeys(calls)
          /\ Len(tree.v) = Len(calls)
          /\ \A i \in DOMAIN calls :
                Get(tree, calls[i].key) = ScalarOf(request.arg[calls[i].field])
          /\ output = Ok(Render(tree))
    /\ (request.fn = "to_value" /\ request.ser = "CountrySerializer") =>
          tree = Obj(<< <<"id", Num(request.arg.id.v)>> >>)
    /\ (request.fn = "to_value" /\ request.ser = "CountrySerializerCustom") =>
          tree = Obj(<< <<"code", Num(request.arg.id.v)>> >>)
    /\ (request.fn = "serialize" /\ request.ser = "CountrySerializer") =>
          output = Ok("{\"id\":" \o ToString(request.arg.id.v) \o "}")
    /\ (request.fn = "serialize" /\ request.ser = "CountrySerializerCustom") =>
          output = Ok("{\"code\":" \o ToString(request.arg.id.v) \o "}")

\* a mapping attr("name", id), attr("id", name) has returned {"id":"Bob","name":2}
C1_Witness ==
    /\ InSession /\ pc = "returned" /\ Len(calls) = 2
    /\ calls[1] = [op |-> "attr", key |-> "name", field |-> "id", ser |-> ""]
    /\ calls[2] = [op |-> "attr", key |-> "id", field |-> "name", ser |-> ""]
    /\ output = Ok("{\"id\":\"Bob\",\"name\":2}")

\* C2: attr twice with the same key raises nothing, leaves one entry for the key,
\* and the entry is the value of the later call.
C2_LastWriteWins ==
    (InSession /\ pc \in {"into", "returned"}) =>
        /\ DOMAIN builder.map = CallKeys(calls)
        /\ \A i \in DOMAIN calls :
              (calls[i].op = "attr" /\ LastWrite(calls, i)) =>
                  builder.map[calls[i].key] = JsonScalar(request.arg[calls[i].field])
        /\ pc = "returned" =>
              /\ Len(tree.v) = Cardinality(CallKeys(calls))
              /\ \A k \in CallKeys(calls) : Get(tree, k) = builder.map[k]

\* attr("id", id) then attr("id", name) on User{id: 2, name: "Bob"} has returned {"id":"Bob"}
C2_Witness ==
    /\ InSession /\ pc = "returned" /\ Len(calls) = 2
    /\ calls[1] = [op |-> "attr", key |-> "id", field |-> "id", ser |-> ""]
    /\ calls[2] = [op |-> "attr", key |-> "id", field |-> "name", ser |-> ""]
    /\ request.arg.id = U64(2)
    /\ output = Ok("{\"id\":\"Bob\"}")

\* the key under which a declared User serializer stores the friends
ManyKey(ser) == IF ser = "UserSerializerCustom" THEN "buddies" ELSE "friends"

\* C3: has_many keeps the input order: the array stored has the input's length and
\* its i-th element is the value tree of the i-th input element.
C3_HasManyOrder ==
    /\ (request.fn = "to_value" /\ request.ser \in UserSerializers /\ pc = "returned") =>
          LET arr == Get(tree, ManyKey(request.ser))
              friends == request.arg.friends
          IN /\ arr.t = "arr"
             /\ Len(arr.v) = Len(friends)
             /\ \A i \in DOMAIN friends :
                   /\ arr.v[i] = ToValue(request.ser, friends[i])
                   /\ Get(arr.v[i], IF request.ser = "UserSerializerCustom"
                                    THEN "identifier" ELSE "id") = Num(friends[i].id.v)
    /\ (InSession /\ pc \in {"into", "returned"} /\ "friends" \in DOMAIN builder.map) =>
          LET arr == builder.map["friends"]
              friends == request.arg.friends
          IN /\ arr.t = "arr"
             /\ Len(arr.v) = Len(friends)
             /\ \A i \in DOMAIN friends : arr.v[i] = ToValue("UserSerializer", friends[i])

\* to_value of a User with the friends 1 and 2, in that order, has returned them in that order
C3_Witness ==
    /\ request.fn = "to_value" /\ request.ser = "TreeSerializer" /\ pc = "returned"
    /\ Len(request.arg.friends) = 2
    /\ request.arg.friends[1].id = U64(1) /\ request.arg.friends[2].id = U64(2)
    /\ Get(tree, "friends") = Arr(<< Obj(<< <<"friends", Arr(<<>>)>>, <<"id", Num(1)>> >>),
                                     Obj(<< <<"friends", Arr(<<>>)>>, <<"id", Num(2)>> >>) >>)

\* C4: has_many over an empty sequence stores the empty array under the key: the
\* key is present and its value is [], not null.
C4_EmptyHasMany ==
    /\ (InSession /\ pc \in {"into", "returned"} /\ request.arg.friends = <<>>
          /\ \E i \in DOMAIN calls : calls[i].op = "has_many") =>
             /\ "friends" \in DOMAIN builder.map
             /\ builder.map["friends"] = Arr(<<>>)
             /\ pc = "returned" =>
                   /\ "friends" \in KeysOf(tree)
                   /\ Get(tree, "friends") = Arr(<<>>)
                   /\ Get(tree, "friends") # Null
    /\ (request.fn = "to_value" /\ request.ser \in UserSerializers /\ pc = "returned"
          /\ request.arg.friends = <<>>) =>
             /\ ManyKey(request.ser) \in KeysOf(tree)
             /\ Get(tree, ManyKey(request.ser)) = Arr(<<>>)
    /\ (request.fn = "serialize" /\ request.ser = "TreeSerializer"
          /\ request.arg.friends = <<>>) =>
             output = Ok("{\"friends\":[],\"id\":" \o ToString(request.arg.id.v) \o "}")

\* a mapping whose only call is has_many(friends) on a User without friends has returned
\* {"friends":[]}
C4_Witness ==
    /\ InSession /\ pc = "returned" /\ Len(calls) = 1 /\ calls[1].op = "has_many"
    /\ request.arg.friends = <<>>
    /\ output = Ok("{\"friends\":[]}")

\* the value tree and the text nested by hand for attr(id) + has_many(friends, self)
RECURSIVE Nest(_), NestText(_), NestTexts(_)
Nest(u) ==
    Obj(<< <<"friends", Arr([i \in DOMAIN u.friends |-> Nest(u.friends[i])])>>,
           <<"id", Num(u.id.v)>> >>)
NestText(u) == "{\"friends\":[" \o NestTexts(u.friends) \o "],\"id\":" \o ToString(u.id.v) \o "}"
NestTexts(us) ==
    IF us = <<>> THEN ""
    ELSE NestText(Head(us)) \o (IF Len(us) > 1 THEN "," ELSE "") \o NestTexts(Tail(us))

\* C5: a mapping that refers to itself through has_many, applied to a finite tree of
\* owned children, returns, and returns the tree nested by hand: each node an object
\* with its id and the array of its children's objects, in order.
C5_SelfReference ==
    request.ser = "TreeSerializer" =>
        /\ pc = "returned"
        /\ request.fn = "to_value" => tree = Nest(request.arg)
        /\ request.fn = "serialize" => output = Ok(NestText(request.arg))

\* serialize has returned the document of a chain of three nodes
C5_Witness ==
    /\ request.fn = "serialize" /\ request.ser = "TreeSerializer" /\ pc = "returned"
    /\ output = Ok("{\"friends\":[{\"friends\":[{\"friends\":[],\"id\":1}],\"id\":2}],\"id\":1}")

\* the documents serialize returns for the elements, joined by sep
RECURSIVE JoinDocs(_, _, _)
JoinDocs(ser, values, sep) ==
    IF values = <<>> THEN ""
    ELSE Serialize(ser, Head(values)).v \o (IF Len(values) > 1 THEN sep ELSE "")
         \o JoinDocs(ser, Tail(values), sep)

\* C6: serialize_iter returns the rendering of one array holding the value tree of
\* each element, in input order ([] for no element), which is not the documents of
\* the elements put one after the other.
C6_SerializeIterArray ==
    (request.fn = "serialize_iter"
       /\ \A i \in DOMAIN request.arg : ~IsPanic(ToValue(request.ser, request.arg[i]))) =>
        /\ pc = "returned"
        /\ output = Ok("[" \o JoinDocs(request.ser, request.arg, ",") \o "]")
        /\ output = Ok(Render(Arr([i \in DOMAIN request.arg |->
                                      ToValue(request.ser, request.arg[i])])))
        /\ output # Ok(JoinDocs(request.ser, request.arg, ""))
        /\ request.arg = <<>> => output = Ok("[]")

\* serialize_iter of two Users has returned one array of their two objects
C6_Witness ==
    /\ request.fn = "serialize_iter" /\ request.ser = "UserSerializerCustom"
    /\ Len(request.arg) = 2
    /\ output = Ok("[{\"buddies\":[],\"homeland\":{\"code\":1},\"identifier\":2},"
                   \o "{\"buddies\":[],\"homeland\":{\"code\":1},\"identifier\":1}]")

\* some name in the tree has no JSON form at all / some name is not a JSON scalar
RECURSIVE AnyBadName(_), AnyOddName(_)
AnyBadName(u) == u.name = BadMap \/ \E i \in DOMAIN u.friends : AnyBadName(u.friends[i])
AnyOddName(u) == ~Representable(u.name) \/ \E i \in DOMAIN u.friends : AnyOddName(u.friends[i])

\* what the root call handed its caller
Handed == IF request.fn = "to_value" THEN tree ELSE output
RootCallOfUserSerializer ==
    request.ser = "UserSerializer" /\ request.fn \in {"to_value", "serialize", "serialize_iter"}
Roots == IF request.fn = "serialize_iter" THEN request.arg ELSE <<request.arg>>

C8_VisibilityAsWritten ==
    request.fn = "serializer!" => struct_def.vis = request.arg.vis

\* the Builder calls cs in the order p
Permuted(cs, p) == [i \in DOMAIN cs |-> cs[p[i]]]
CallOrders(n) == {p \in [1..n -> 1..n] : \A i, j \in 1..n : p[i] = p[j] => i = j}

\* the keys of every object of a value tree are in strictly ascending order
RECURSIVE SortedDeep(_)
SortedDeep(val) ==
    CASE val.t = "obj" ->
            /\ \A i \in DOMAIN val.v : i > 1 => KeyLess(val.v[i - 1][1], val.v[i][1])
            /\ \A i \in DOMAIN val.v : SortedDeep(val.v[i][2])
      [] val.t = "arr" -> \A i \in DOMAIN val.v : SortedDeep(val.v[i])
      [] OTHER -> TRUE

\* C9: the result does not depend on the order of the Builder calls: the calls of a
\* mapping on distinct keys, made in any other order, give the same value tree and
\* the same string, and every object's keys are in lexicographic order.
C9_OrderIndependent ==
    /\ (InSession /\ pc = "returned" /\ DistinctKeys(calls)) =>
          /\ SortedDeep(tree)
          /\ \A p \in CallOrders(Len(calls)) :
                LET b == RunCalls(Permuted(calls, p), request.arg, BuilderNew)
                IN /\ ~b.panicked
                   /\ BuilderToValue(b) = tree
                   /\ Ok(Render(BuilderToValue(b))) = output
    /\ (request.fn = "to_value" /\ pc = "returned") => SortedDeep(tree)
    /\ (request.fn = "serialize" /\ request.ser \in UserSerializers /\ pc = "returned") =>
          \A p \in CallOrders(Len(Body(request.ser))) :
             LET b == RunBody(Permuted(Body(request.ser), p), request.arg, BuilderNew)
             IN Ok(Render(BuilderToValue(b))) = output

\* the mapping made the calls name, id, friends and returned the keys friends, id, name
C9_Witness ==
    /\ InSession /\ pc = "returned" /\ Len(calls) = 3
    /\ calls[1].key = "name" /\ calls[2].key = "id" /\ calls[3].key = "friends"
    /\ output = Ok("{\"friends\":[{\"country\":{\"id\":1},\"friends\":[],\"id\":2,\"name\":\"Bob\"}],"
                   \o "\"id\":1,\"name\":\"Bob\"}")

\* the step is one has_one or has_many call of the hand-written mapping that returned
NestedCallReturned ==
    /\ pc = "into" /\ pc' = "into" /\ Len(calls') = Len(calls) + 1
    /\ calls'[Len(calls')].op \in {"has_one", "has_many"}

\* C10: has_one changes the calling Builder at its key only: the key gets the value
\* tree a root call of the nested mapping returns, every other key keeps its value,
\* and no key the nested mapping wrote appears; likewise for has_many's elements.
C10_NestedCallFrame ==
    [][NestedCallReturned =>
          LET call == calls'[Len(calls')]
              sub == request.arg[call.field]
          IN /\ DOMAIN builder'.map = DOMAIN builder.map \cup {call.key}
             /\ \A k \in DOMAIN builder.map \ {call.key} : builder'.map[k] = builder.map[k]
             /\ call.op = "has_one" =>
                   /\ builder'.map[call.key] = ToValue(call.ser, sub)
                   /\ builder'.map[call.key] = Obj(<< <<"id", Num(sub.id.v)>> >>)
             /\ call.op = "has_many" =>
                   builder'.map[call.key] = Arr([i \in DOMAIN sub |-> ToValue(call.ser, sub[i])])
      ]_vars

\* after attr(id) on a User with id 2, has_one(country) has returned: the Builder holds
\* the User's id 2 and, under country, the Country's own object with id 1
C10_Witness ==
    /\ InSession /\ pc = "into" /\ Len(calls) = 2
    /\ calls[1].op = "attr" /\ calls[1].key = "id" /\ calls[1].field = "id"
    /\ calls[2].op = "has_one"
    /\ builder.map["id"] = Num(2)
    /\ builder.map["country"] = Obj(<< <<"id", Num(1)>> >>)

====
